---- MODULE Spec2Model ----
(***************************************************************************)
(* Command dispatcher of the podcast-clipper desktop shell                  *)
(* (src-tauri/src/lib.rs): five command handlers invoked by the front end.   *)
(*                                                                          *)
(* Texts that the handlers take apart or assemble (paths, export fields)     *)
(* are sequences of one-character strings, so that splitting and             *)
(* concatenation are computed rather than assumed.  Paths are parsed with    *)
(* the Unix rules of std::path ("/" is the only separator, no prefixes).     *)
(* Host error texts and URLs, which the handlers only pass along, are        *)
(* ordinary strings.                                                         *)
(***************************************************************************)
EXTENDS Integers, Sequences, FiniteSets, TLC

VARIABLES calls, results, hostLog, fs

vars == <<calls, results, hostLog, fs>>

(***************************************************************************)
(* Bounds                                                                    *)
(***************************************************************************)
\* number of command invocations the front end dispatches in one behaviour
MaxCalls == 2
\* number of pieces a generated path text is assembled from
MaxPieces == 5

(***************************************************************************)
(* Text literals of the source                                               *)
(***************************************************************************)
Unknown == <<"U", "n", "k", "n", "o", "w", "n">>
ClipPrefix == <<"/", "c", "l", "i", "p", "_">>
Underscore == <<"_">>
Mp4Suffix == <<".", "m", "p", "4">>

\* Option<T> as a record; val is meaningful only when some is TRUE
Some(v) == [some |-> TRUE, val |-> v]
None == [some |-> FALSE, val |-> <<>>]

(***************************************************************************)
(* std::path on Unix, as used by PathBuf::from(&path).file_stem()            *)
(***************************************************************************)
Normal(s) == [kind |-> "Normal", name |-> s]
RootDir == [kind |-> "RootDir", name |-> <<>>]
CurDir == [kind |-> "CurDir", name |-> <<>>]
ParentDir == [kind |-> "ParentDir", name |-> <<>>]
NoComponent == [kind |-> "None", name |-> <<>>]

\* Components::new: has_physical_root is decided once, from the first unit
HasPhysicalRoot(path) == Len(path) > 0 /\ path[1] = "/"

\* Components::include_cur_dir: a leading "." that is a whole segment
IncludeCurDir(path, hasRoot) ==
    /\ ~hasRoot
    /\ Len(path) > 0
    /\ path[1] = "."
    /\ (Len(path) = 1 \/ path[2] = "/")

\* Components::len_before_body (the prefix is always empty on Unix)
LenBeforeBody(path, hasRoot) ==
    (IF hasRoot THEN 1 ELSE 0) + (IF IncludeCurDir(path, hasRoot) THEN 1 ELSE 0)

\* Components::parse_single_component
ParseSingleComponent(comp) ==
    IF comp = <<".">> THEN NoComponent
    ELSE IF comp = <<".", ".">> THEN ParentDir
    ELSE IF comp = <<>> THEN NoComponent
    ELSE Normal(comp)

\* Components::parse_next_component_back: the text after the last separator
\* of the body, and how many units it and that separator take
ParseNextComponentBack(path, hasRoot) ==
    LET start == LenBeforeBody(path, hasRoot)
        seps == {i \in (start + 1)..Len(path) : path[i] = "/"}
        lastSep == IF seps = {} THEN 0 ELSE CHOOSE i \in seps : \A j \in seps : j <= i
        comp == IF seps = {} THEN SubSeq(path, start + 1, Len(path))
                ELSE SubSeq(path, lastSep + 1, Len(path))
        extra == IF seps = {} THEN 0 ELSE 1
    IN  [size |-> Len(comp) + extra, comp |-> ParseSingleComponent(comp)]

\* Components::next_back, run from the state back = Body until it returns
RECURSIVE NextBack(_, _, _)
NextBack(path, hasRoot, back) ==
    IF back = "Body"
    THEN IF Len(path) > LenBeforeBody(path, hasRoot)
         THEN LET r == ParseNextComponentBack(path, hasRoot)
              IN  IF r.comp.kind # "None"
                  THEN r.comp
                  ELSE NextBack(SubSeq(path, 1, Len(path) - r.size), hasRoot, "Body")
         ELSE NextBack(path, hasRoot, "StartDir")
    ELSE IF back = "StartDir"
    THEN IF hasRoot THEN RootDir
         ELSE IF IncludeCurDir(path, hasRoot) THEN CurDir
         ELSE NextBack(path, hasRoot, "Prefix")
    ELSE NoComponent

\* Path::file_name: the last component, if it is a normal one
FileName(path) ==
    LET c == NextBack(path, HasPhysicalRoot(path), "Body")
    IN  IF c.kind = "Normal" THEN Some(c.name) ELSE None

\* the file name cut at its first "." instead of its last
RsplitFileAtDot_firstDot(file) ==
    LET dots == {i \in 2..Len(file) : file[i] = "."}
    IN  IF dots = {} THEN file
        ELSE SubSeq(file, 1, (CHOOSE i \in dots : \A j \in dots : i <= j) - 1)

\* std::path::rsplit_file_at_dot followed by before.or(after)
RsplitFileAtDot(file) ==
    LET dots == {i \in 1..Len(file) : file[i] = "."}
        lastDot == CHOOSE i \in dots : \A j \in dots : j <= i
    IN  IF file = <<".", ".">> THEN file
        ELSE IF dots = {} THEN file
        ELSE IF lastDot = 1 THEN file
        ELSE SubSeq(file, 1, lastDot - 1)

\* Path::file_stem
FileStem(path) ==
    LET f == FileName(path)
    IN  IF f.some THEN Some(RsplitFileAtDot(f.val)) ELSE None

\* units that are not valid Unicode on their own (a stray byte of an OsStr)
InvalidUnits == {"\\xFF"}
ReplacementChar == "\\uFFFD"

\* OsStr::to_str: the text itself when all of it is valid Unicode
ToStr(s) ==
    IF \E i \in 1..Len(s) : s[i] \in InvalidUnits THEN None ELSE Some(s)

\* OsStr::to_string_lossy: every invalid unit becomes U+FFFD
ToStringLossy(s) ==
    [i \in 1..Len(s) |-> IF s[i] \in InvalidUnits THEN ReplacementChar ELSE s[i]]

\* Option::unwrap_or
UnwrapOr(o, default) == IF o.some THEN o.val ELSE default

\* Option::and_then(|s| s.to_str())
AndThenToStr(o) == IF o.some THEN ToStr(o.val) ELSE None

(***************************************************************************)
(* Values crossing the command boundary                                      *)
(***************************************************************************)
\* Result<T, String>
Ok(v) == [ok |-> TRUE, value |-> v, err |-> ""]
Err(e) == [ok |-> FALSE, value |-> <<>>, err |-> e]

\* the unit value ()
Unit == <<>>

AudioFile(path, duration, name) ==
    [path |-> path, duration |-> duration, name |-> name]

ExportOptions(clip_id, format, template_id, output_dir, quality) ==
    [clip_id |-> clip_id, format |-> format, template_id |-> template_id,
     output_dir |-> output_dir, quality |-> quality]

ExportResult(success, output_path, error) ==
    [success |-> success, output_path |-> output_path, error |-> error]

(***************************************************************************)
(* The host: the opener, the path resolver and the filesystem.  What the     *)
(* host answers to one request is its own choice; the model lets it answer   *)
(* anything from the sets below and records the answer in hostLog.           *)
(***************************************************************************)
NoError == [kind |-> "None", code |-> 0, msg |-> ""]
HostOk(v) == [ok |-> TRUE, val |-> v, error |-> NoError]
HostErr(e) == [ok |-> FALSE, val |-> <<>>, error |-> e]

\* std::io::Error values the opener can hand back
IoErrors ==
    {[kind |-> "Os", code |-> 2, msg |-> "No such file or directory"],
     [kind |-> "Custom", code |-> 0, msg |-> "Launcher xdg-open failed with ExitStatus(3)"]}

\* tauri::Error values the path resolver can hand back
PathErrors == {[kind |-> "UnknownPath", code |-> 0, msg |-> ""]}

\* Display of the error types, which is what e.to_string() yields
ErrToString(e) ==
    IF e.kind = "Os" THEN e.msg \o " (os error " \o ToString(e.code) \o ")"
    ELSE IF e.kind = "UnknownPath" THEN "unknown path"
    ELSE e.msg

OutDir == <<"/", "o", "u", "t">>
AppDataDir == <<"/", "d">>
AppDataDirRaw == <<"/", "d", "\\xFF">>

\* directories that may or may not exist on the host
HostDirs == {OutDir, AppDataDir}

\* open::that(&url)
OpenThatOutcomes == {HostOk(Unit)} \cup {HostErr(e) : e \in IoErrors}

\* app.path().app_data_dir()
AppDataDirOutcomes ==
    {HostOk(AppDataDir), HostOk(AppDataDirRaw)} \cup {HostErr(e) : e \in PathErrors}

(***************************************************************************)
(* Arguments the front end sends                                             *)
(***************************************************************************)
RECURSIVE Flatten(_)
Flatten(ss) == IF ss = <<>> THEN <<>> ELSE Head(ss) \o Flatten(Tail(ss))

Pieces == {<<"/">>, <<".">>, <<"a">>, Unknown}

\* every text assembled from at most MaxPieces pieces
GenPaths ==
    {Flatten(s) : s \in UNION {[1..n -> Pieces] : n \in 0..MaxPieces}}

SongWav == <<"/", "t", "m", "p", "/", "s", "o", "n", "g", ".", "w", "a", "v">>

SamplePaths == {<<>>, <<"/">>, SongWav, <<"a", "/", ".", ".">>, Unknown}

ClipIds == {<<"4", "2">>, <<>>}
Formats == {<<"w", "e", "b", "m">>, <<"m", "p", "4">>}
TemplateIds == {<<"t", "1">>, <<"t", "2">>}
OutputDirs == {OutDir, <<>>}
Qualities == {<<"h", "i", "g", "h">>, <<"l", "o", "w">>}

ExportRequests ==
    {ExportOptions(c, f, t, o, q) :
        c \in ClipIds, f \in Formats, t \in TemplateIds, o \in OutputDirs, q \in Qualities}

Urls == {"", "https://example.com", "nosuch:thing"}

(***************************************************************************)
(* State                                                                     *)
(*   calls    the invocations dispatched so far; the index is the call id    *)
(*   results  the value returned for each call that has completed            *)
(*   hostLog  every request a handler made of the host, with the answer      *)
(*   fs       the directories that exist on the host                         *)
(***************************************************************************)
Init ==
    /\ calls = <<>>
    /\ results = <<>>
    /\ hostLog = <<>>
    /\ fs \in SUBSET HostDirs

\* a dispatched call whose handler has not returned yet
Pending(id, cmd) ==
    /\ id \in 1..Len(calls)
    /\ id \notin DOMAIN results
    /\ calls[id].cmd = cmd

\* tauri::generate_handler!: the front end invokes a registered command
Invoke(cmd, arg) ==
    /\ Len(calls) < MaxCalls
    /\ calls' = Append(calls, [cmd |-> cmd, arg |-> arg])
    /\ UNCHANGED <<results, hostLog, fs>>

Return(id, r) == results' = results @@ (id :> r)

(***************************************************************************)
(* Handlers                                                                  *)
(***************************************************************************)
\* the stub reporting that it is not implemented
select_audio_file_result_unimplemented == Err("not implemented")

select_audio_file_result == Ok(None)

select_audio_file(id) ==
    /\ Pending(id, "select_audio_file")
    /\ Return(id, select_audio_file_result)
    /\ UNCHANGED <<calls, hostLog, fs>>

\* the duration taken from the path text instead of the sentinel
get_audio_info_result_duration(path) ==
    LET name == UnwrapOr(AndThenToStr(FileStem(path)), Unknown)
    IN  Ok(AudioFile(path, Len(path), name))

\* an empty path rejected instead of tolerated
get_audio_info_result_rejecting(path) ==
    LET name == UnwrapOr(AndThenToStr(FileStem(path)), Unknown)
    IN  IF path = <<>> THEN Err("empty path") ELSE Ok(AudioFile(path, 0, name))

get_audio_info_result(path) ==
    LET name == UnwrapOr(AndThenToStr(FileStem(path)), Unknown)
    IN  Ok(AudioFile(path, 0, name))

get_audio_info(id) ==
    /\ Pending(id, "get_audio_info")
    /\ Return(id, get_audio_info_result(calls[id].arg))
    /\ UNCHANGED <<calls, hostLog, fs>>

\* the requested format used as the extension
FormatOutputPath_formatExt(output_dir, clip_id, format) ==
    output_dir \o ClipPrefix \o clip_id \o <<".">> \o format

\* format!("{}/clip_{}_{}.mp4", output_dir, clip_id, format)
FormatOutputPath(output_dir, clip_id, format) ==
    output_dir \o ClipPrefix \o clip_id \o Underscore \o format \o Mp4Suffix

\* an empty output directory reported as a failed export
export_clip_result_checked(options) ==
    IF options.output_dir = <<>>
    THEN Ok(ExportResult(FALSE, None, Some(<<"n", "o", " ", "d", "i", "r">>)))
    ELSE Ok(ExportResult(TRUE,
                         Some(FormatOutputPath(options.output_dir, options.clip_id,
                                               options.format)),
                         None))

\* the output name made unique with a count of the calls completed so far
export_clip_result_numbered(options) ==
    Ok(ExportResult(TRUE,
                    Some(FormatOutputPath(options.output_dir,
                                          options.clip_id \o <<ToString(Cardinality(DOMAIN results))>>,
                                          options.format)),
                    None))

\* the quality preset made part of the output name
export_clip_result_quality(options) ==
    Ok(ExportResult(TRUE,
                    Some(FormatOutputPath(options.output_dir, options.clip_id,
                                          options.format \o Underscore \o options.quality)),
                    None))

export_clip_result(options) ==
    Ok(ExportResult(TRUE,
                    Some(FormatOutputPath(options.output_dir, options.clip_id,
                                          options.format)),
                    None))

export_clip(id) ==
    /\ Pending(id, "export_clip")
    /\ Return(id, export_clip_result(calls[id].arg))
    /\ UNCHANGED <<calls, hostLog, fs>>

\* the opener's error dropped
open_url_result_ignoring(outcome) == Ok(Unit)

\* .map_err(|e| e.to_string()) on the opener's answer
open_url_result(outcome) ==
    IF outcome.ok THEN Ok(Unit) ELSE Err(ErrToString(outcome.error))

open_url(id) ==
    /\ Pending(id, "open_url")
    /\ \E outcome \in OpenThatOutcomes :
          /\ hostLog' = Append(hostLog, [id |-> id, op |-> "open::that",
                                         arg |-> calls[id].arg, outcome |-> outcome])
          /\ Return(id, open_url_result(outcome))
    /\ UNCHANGED <<calls, fs>>

\* .map(|p| p.to_string_lossy().to_string()).map_err(|e| e.to_string())
get_app_data_dir_result(outcome) ==
    IF outcome.ok THEN Ok(ToStringLossy(outcome.val))
    ELSE Err(ErrToString(outcome.error))

\* the resolved directory created when it is missing
get_app_data_dir_creating(id) ==
    /\ Pending(id, "get_app_data_dir")
    /\ \E outcome \in AppDataDirOutcomes :
          /\ hostLog' = Append(hostLog, [id |-> id, op |-> "app_data_dir",
                                         arg |-> "", outcome |-> outcome])
          /\ Return(id, get_app_data_dir_result(outcome))
          /\ fs' = IF outcome.ok THEN fs \cup {outcome.val} ELSE fs
    /\ UNCHANGED calls

get_app_data_dir(id) ==
    /\ Pending(id, "get_app_data_dir")
    /\ \E outcome \in AppDataDirOutcomes :
          /\ hostLog' = Append(hostLog, [id |-> id, op |-> "app_data_dir",
                                         arg |-> "", outcome |-> outcome])
          /\ Return(id, get_app_data_dir_result(outcome))
    /\ UNCHANGED <<calls, fs>>

(***************************************************************************)
(* Specifications                                                            *)
(***************************************************************************)
InvokeSelectAudioFile == Invoke("select_audio_file", Unit)
InvokeGetAudioInfo == \E p \in SamplePaths : Invoke("get_audio_info", p)
InvokeExportClip == \E o \in ExportRequests : Invoke("export_clip", o)
InvokeOpenUrl == \E u \in Urls : Invoke("open_url", u)
InvokeGetAppDataDir == Invoke("get_app_data_dir", Unit)

RunSelectAudioFile == \E id \in 1..Len(calls) : select_audio_file(id)
RunGetAudioInfo == \E id \in 1..Len(calls) : get_audio_info(id)
RunExportClip == \E id \in 1..Len(calls) : export_clip(id)
RunOpenUrl == \E id \in 1..Len(calls) : open_url(id)
RunGetAppDataDir == \E id \in 1..Len(calls) : get_app_data_dir(id)

Next ==
    \/ InvokeSelectAudioFile
    \/ InvokeGetAudioInfo
    \/ InvokeExportClip
    \/ InvokeOpenUrl
    \/ InvokeGetAppDataDir
    \/ RunSelectAudioFile
    \/ RunGetAudioInfo
    \/ RunExportClip
    \/ RunOpenUrl
    \/ RunGetAppDataDir

Spec == Init /\ [][Next]_vars

\* get_audio_info alone, on every generated path text
InvokeGenPath ==
    /\ calls = <<>>
    /\ \E p \in GenPaths \cup SamplePaths :
          calls' = <<[cmd |-> "get_audio_info", arg |-> p]>>
    /\ UNCHANGED <<results, hostLog, fs>>

NextPath == InvokeGenPath \/ RunGetAudioInfo

SpecPath == Init /\ [][NextPath]_vars

(***************************************************************************)
(* Vocabulary of the properties                                              *)
(***************************************************************************)
Done(id, cmd) ==
    /\ id \in 1..Len(calls)
    /\ id \in DOMAIN results
    /\ calls[id].cmd = cmd

Ids == 1..Len(calls)

\* the requests the handler of call id made of the host
HostRequests(id) == {k \in 1..Len(hostLog) : hostLog[k].id = id}

\* path[i..j] is a maximal run of units other than the separator
IsSegment(path, i, j) ==
    /\ 1 <= i /\ i <= j /\ j <= Len(path)
    /\ \A k \in i..j : path[k] # "/"
    /\ (i = 1 \/ path[i - 1] = "/")
    /\ (j = Len(path) \/ path[j + 1] = "/")

\* where the segments other than "." end
SegmentEnds(path) ==
    {j \in 1..Len(path) :
        \E i \in 1..j : IsSegment(path, i, j) /\ SubSeq(path, i, j) # <<".">>}

\* the last segment, skipping empty segments and "." segments
LastSegment(path) ==
    LET j == CHOOSE e \in SegmentEnds(path) : \A f \in SegmentEnds(path) : f <= e
        i == CHOOSE b \in 1..j : IsSegment(path, b, j)
    IN  SubSeq(path, i, j)

\* a last segment can be derived: there is one and it is not ".."
HasLastSegment(path) ==
    /\ SegmentEnds(path) # {}
    /\ LastSegment(path) # <<".", ".">>

\* the segment up to its last ".", a "." in first place not counting
WithoutExtension(seg) ==
    LET dots == {k \in 2..Len(seg) : seg[k] = "."}
    IN  IF dots = {} THEN seg
        ELSE SubSeq(seg, 1, (CHOOSE d \in dots : \A e \in dots : e <= d) - 1)

EndsWith(s, suffix) ==
    /\ Len(s) >= Len(suffix)
    /\ SubSeq(s, Len(s) - Len(suffix) + 1, Len(s)) = suffix

HasInvalidUnit(s) == \E i \in 1..Len(s) : s[i] \in InvalidUnits

(***************************************************************************)
(* Properties                                                                *)
(***************************************************************************)

\* C1 as amended: the name returned by get_audio_info is the path's last
\* segment (empty and "." segments skipped) without its extension, a leading
\* "." never starting an extension, and it is "Unknown" whenever no last
\* segment can be derived (no segment at all, or a last segment "..").
C1_NameIsStemOrUnknown ==
    \A id \in Ids : Done(id, "get_audio_info") =>
        LET path == calls[id].arg
            name == results[id].value.name
        IN  /\ HasLastSegment(path) => name = WithoutExtension(LastSegment(path))
            /\ ~HasLastSegment(path) => name = Unknown

\* C1 as stated: in addition the name is "Unknown" exactly when no last
\* segment can be derived.
C1_UnknownExactlyWhenNoSegment ==
    \A id \in Ids : Done(id, "get_audio_info") =>
        LET path == calls[id].arg
            name == results[id].value.name
        IN  /\ HasLastSegment(path) => name = WithoutExtension(LastSegment(path))
            /\ (name = Unknown) <=> ~HasLastSegment(path)

\* a path ending in a separator whose last segment has several dots was named
C1_Witness ==
    \E id \in Ids :
        /\ Done(id, "get_audio_info")
        /\ calls[id].arg = <<"a", ".", "a", ".", "/">>
        /\ results[id].value.name = <<"a", ".", "a">>

\* C2: every completed export_clip call returned success = true and an
\* outputPath that is exactly outputDir + "/clip_" + clipId + "_" + format +
\* ".mp4", so that it always ends in ".mp4", whether or not outputDir exists.
C2_OutputPathFormat ==
    \A id \in Ids : Done(id, "export_clip") =>
        LET o == calls[id].arg
            r == results[id]
        IN  /\ r.ok
            /\ r.value.success
            /\ r.value.output_path.some
            /\ r.value.output_path.val =
                   o.output_dir \o <<"/", "c", "l", "i", "p", "_">> \o o.clip_id
                       \o <<"_">> \o o.format \o <<".", "m", "p", "4">>
            /\ EndsWith(r.value.output_path.val, <<".", "m", "p", "4">>)

\* format "webm" into the directory /out, which does not exist, gave
\* /out/clip_42_webm.mp4
C2_Witness ==
    \E id \in Ids :
        /\ Done(id, "export_clip")
        /\ calls[id].arg.format = <<"w", "e", "b", "m">>
        /\ calls[id].arg.output_dir = OutDir
        /\ OutDir \notin fs
        /\ results[id].value.output_path.val =
               <<"/", "o", "u", "t", "/", "c", "l", "i", "p", "_", "4", "2", "_",
                 "w", "e", "b", "m", ".", "m", "p", "4">>

\* C3: export_clip never fails and never populates error: every pending
\* export_clip call can return, and every returned one is a success result
\* with success = true, a present outputPath and an absent error.
C3_ExportNeverFails ==
    \A id \in Ids :
        /\ Pending(id, "export_clip") => ENABLED export_clip(id)
        /\ Done(id, "export_clip") =>
              /\ results[id].ok
              /\ results[id].err = ""
              /\ results[id].value.success
              /\ results[id].value.output_path.some
              /\ ~results[id].value.error.some

\* a request with an empty outputDir and an empty clipId was answered
C3_Witness ==
    \E id \in Ids :
        /\ Done(id, "export_clip")
        /\ calls[id].arg.output_dir = <<>>
        /\ calls[id].arg.clip_id = <<>>
        /\ results[id].value.success

\* C4: select_audio_file always returns the "no selection" result and never
\* a failure, whatever was dispatched or completed before it.
C4_SelectReturnsNone ==
    \A id \in Ids :
        /\ Pending(id, "select_audio_file") => ENABLED select_audio_file(id)
        /\ Done(id, "select_audio_file") =>
              /\ results[id].ok
              /\ ~results[id].value.some

\* select_audio_file returned after an earlier command had completed
C4_Witness ==
    \E id \in Ids :
        /\ id > 1
        /\ Done(id, "select_audio_file")
        /\ (id - 1) \in DOMAIN results
        /\ calls[id - 1].cmd # "select_audio_file"

\* C5: open_url hands the url unchanged to the host exactly once; it fails
\* with the host's error, stringified and non-empty, exactly when the host
\* could not open the value, and otherwise succeeds with the unit value.
C5_OpenUrlForwardsHostAnswer ==
    \A id \in Ids :
        /\ Pending(id, "open_url") => HostRequests(id) = {}
        /\ Done(id, "open_url") =>
              /\ Cardinality(HostRequests(id)) = 1
              /\ \A k \in HostRequests(id) :
                    /\ hostLog[k].op = "open::that"
                    /\ hostLog[k].arg = calls[id].arg
                    /\ hostLog[k].outcome.ok =>
                          /\ results[id].ok
                          /\ results[id].value = Unit
                    /\ ~hostLog[k].outcome.ok =>
                          /\ ~results[id].ok
                          /\ results[id].err # ""
                          /\ results[id].err = ErrToString(hostLog[k].outcome.error)

\* the host could not open the empty url and its OS error came back
C5_Witness ==
    \E id \in Ids :
        /\ Done(id, "open_url")
        /\ calls[id].arg = ""
        /\ ~results[id].ok
        /\ results[id].err = "No such file or directory (os error 2)"

\* C6: the duration returned by get_audio_info is the sentinel 0 for every
\* path, whether or not anything exists on the host.
C6_DurationIsZero ==
    \A id \in Ids : Done(id, "get_audio_info") =>
        /\ results[id].ok
        /\ results[id].value.duration = 0

\* a non-empty path was answered while no directory existed on the host
C6_Witness ==
    \E id \in Ids :
        /\ Done(id, "get_audio_info")
        /\ calls[id].arg = SongWav
        /\ fs = {}

StatelessCmds == {"select_audio_file", "get_audio_info", "export_clip"}

AppDataDirAnswered(id) ==
    /\ Cardinality(HostRequests(id)) = 1
    /\ \A k \in HostRequests(id) :
          LET outcome == hostLog[k].outcome
          IN  /\ hostLog[k].op = "app_data_dir"
              /\ outcome.ok =>
                    /\ results[id].ok
                    /\ Len(results[id].value) = Len(outcome.val)
                    /\ \A n \in 1..Len(outcome.val) :
                          results[id].value[n] =
                              IF outcome.val[n] \in InvalidUnits
                              THEN ReplacementChar ELSE outcome.val[n]
                    /\ ~HasInvalidUnit(outcome.val) => results[id].value = outcome.val
              /\ ~outcome.ok =>
                    /\ ~results[id].ok
                    /\ results[id].err = ErrToString(outcome.error)

\* C8: a step in which a get_app_data_dir call returns asks the host once,
\* returns the resolved directory as text (or the host's error text when the
\* host cannot resolve one), and leaves the host's directories and the
\* dispatched calls as they were.
C8_AppDataDirNoSideEffect ==
    [][\A id \in Ids :
          (Pending(id, "get_app_data_dir") /\ id \in DOMAIN results')
          => /\ fs' = fs
             /\ calls' = calls
             /\ AppDataDirAnswered(id)']_vars

\* the host resolved a directory that does not exist, and it still does not
C8_Witness ==
    \E id \in Ids :
        /\ Done(id, "get_app_data_dir")
        /\ results[id].ok
        /\ results[id].value = AppDataDir
        /\ AppDataDir \notin fs

\* C9: get_audio_info is total and echoes its input: for every pending call
\* the handler computes a success, every returned call is a success whose
\* path field is the path argument, and "/tmp/song.wav" gives duration 0 and
\* name "song".
C9_TotalAndEchoesPath ==
    \A id \in Ids :
        /\ Pending(id, "get_audio_info") => get_audio_info_result(calls[id].arg).ok
        /\ Done(id, "get_audio_info") =>
              /\ results[id].ok
              /\ results[id].value.path = calls[id].arg
              /\ calls[id].arg = SongWav =>
                    results[id].value = AudioFile(SongWav, 0, <<"s", "o", "n", "g">>)

\* the empty path was answered with a success
C9_Witness ==
    \E id \in Ids :
        /\ Done(id, "get_audio_info")
        /\ calls[id].arg = <<>>
        /\ results[id].ok

\* C10: two completed export_clip calls that agree on outputDir, clipId and
\* format have identical outcomes, whatever their templateId and quality.
C10_IgnoresTemplateAndQuality ==
    \A i \in Ids : \A j \in Ids :
        (/\ Done(i, "export_clip")
         /\ Done(j, "export_clip")
         /\ calls[i].arg.output_dir = calls[j].arg.output_dir
         /\ calls[i].arg.clip_id = calls[j].arg.clip_id
         /\ calls[i].arg.format = calls[j].arg.format)
        => results[i] = results[j]

\* two answered requests differing in both templateId and quality only
C10_Witness ==
    \E i \in Ids : \E j \in Ids :
        /\ Done(i, "export_clip")
        /\ Done(j, "export_clip")
        /\ calls[i].arg.output_dir = calls[j].arg.output_dir
        /\ calls[i].arg.clip_id = calls[j].arg.clip_id
        /\ calls[i].arg.format = calls[j].arg.format
        /\ calls[i].arg.template_id # calls[j].arg.template_id
        /\ calls[i].arg.quality # calls[j].arg.quality

====
